---- MODULE Spec2Model ----
(***************************************************************************)
(* Model of the wallet service (src/src/services/wallet.service.ts):       *)
(* getCurrentBalance, transact and createUser running against the two     *)
(* DynamoDB tables Users and Transactions.  Every `await docClient.send`  *)
(* is one atomic step of the store; concurrent calls interleave between   *)
(* their sends.                                                            *)
(*                                                                         *)
(* Storage model: GetCommand reads one item; PutCommand replaces the item *)
(* with the same primary key; TransactWriteCommand applies its Put and    *)
(* its Update together when both ConditionExpressions hold and is         *)
(* cancelled (TransactionCanceledException) otherwise.  Amounts and       *)
(* balances are whole units.  The transaction id `txn_<ms>_<random>` is   *)
(* taken to be unique; only the id of a call that commits is ever seen,   *)
(* so ids are numbered in the order of the commits.  The calls in         *)
(* progress carry no identity of their own: they are kept as a bag.       *)
(***************************************************************************)
EXTENDS Integers, FiniteSets, Sequences, Bags, TLC

\* ---------------------------------------------------------------- bounds
NumCalls == 3
MaxInitialBalance == 2
MaxCreates == 2
MaxRetries == 1
MaxTime == 2

\* ------------------------------------------------------------- universes
UserIds == {"u1", "u2", "retry-user"}
IdempotentKeys == {"k1", "k2", "k3"}
AmountStrings == {"1", "2"}
Types == {"credit", "debit"}

\* the initialBalance values createUser is called with
InitialBalances == (0 - 2)..MaxInitialBalance

\* wallet.types.ts TransactInput
TransactInput == [idempotentKey : IdempotentKeys, userId : UserIds,
                  amount : AmountStrings, type : Types]

NoInput == [idempotentKey |-> "", userId |-> "", amount |-> "", type |-> ""]

\* parseFloat(amount): the number a decimal string starts with, NaN otherwise
ParseFloat(s) ==
  CASE s = "1" -> [isNaN |-> FALSE, value |-> 1]
    [] s = "2" -> [isNaN |-> FALSE, value |-> 2]
    [] s = "0" -> [isNaN |-> FALSE, value |-> 0]
    [] s = "-1" -> [isNaN |-> FALSE, value |-> -1]
    [] s = "2x" -> [isNaN |-> FALSE, value |-> 2]
    [] OTHER -> [isNaN |-> TRUE, value |-> 0]

\* JavaScript `x || d` on numbers: 0 is falsy
OrElse(x, d) == IF x = 0 THEN d ELSE x

\* an absent item of the Users table / of the Transactions table
NoUser == [exists |-> FALSE, balance |-> 0, createdAt |-> 0, updatedAt |-> 0]
NoTransaction == [exists |-> FALSE, transactionId |-> 0, userId |-> "",
                  amount |-> 0, type |-> "", newBalance |-> 0, timestamp |-> 0]

NoLocal == [numericAmount |-> 0, balanceChange |-> 0, calculatedNewBalance |-> 0,
            transactionId |-> 0, timestamp |-> 0,
            foundTransactionId |-> 0, foundNewBalance |-> 0]
NoResult == [outcome |-> "", transactionId |-> 0, newBalance |-> 0, message |-> ""]

VARIABLES
  users,           \* Users table: userId -> item
  txns,            \* Transactions table: idempotentKey -> item
  calls,           \* the transact calls made so far, a bag of
                   \*   [pc, input, local, result]: the await a call is at, its
                   \*   TransactInput, its locals that live across an await, and
                   \*   what it returned or threw
  nextId,          \* the number of transaction ids seen so far
  now,             \* the clock read by Date.now() / new Date()
  requests,        \* the requests the callers have still to submit: input -> how many
  initialBalance,  \* the initialBalance each account was last created with
  balanceRead,     \* the last value returned or thrown by getCurrentBalance
  creates          \* the number of createUser calls made so far

vars == <<users, txns, calls, nextId, now, requests, initialBalance, balanceRead, creates>>

\* ------------------------------------------------------- thrown messages
MsgRequired == "All fields are required: idempotentKey, userId, amount, type"
MsgPositive == "Amount must be a positive number"
MsgType == "Type must be either 'credit' or 'debit'"
MsgNotFound == "User not found"
MsgInsufficient == "Insufficient balance: transaction would result in negative balance"
MsgConcurrent == "Transaction failed due to concurrent modification. Please retry."
MsgIdempotent == "Transaction already processed (idempotent)"
MsgIdempotentConcurrent == "Transaction already processed (idempotent - concurrent request)"

Success(id, bal, msg) ==
  [outcome |-> "success", transactionId |-> id, newBalance |-> bal, message |-> msg]
Failure(msg) ==
  [outcome |-> "error", transactionId |-> 0, newBalance |-> 0, message |-> msg]

\* a call at await pc; a call that has returned or thrown keeps no locals
Call(pc, input, local, result) ==
  [pc |-> pc, input |-> input, local |-> local, result |-> result]
Finished(c, result) == Call("done", c.input, NoLocal, result)

\* the calls, and the bag after call c has moved on to d
CallSet == BagToSet(calls)
Replace(c, d) == (calls (-) SetToBag({c})) (+) SetToBag({d})

\* transact, lines 66-78: the message thrown by input validation, "" when valid
Validate(r) ==
  IF r.idempotentKey = "" \/ r.userId = "" \/ r.amount = "" \/ r.type = ""
    THEN MsgRequired
  ELSE IF ParseFloat(r.amount).isNaN \/ ParseFloat(r.amount).value <= 0
    THEN MsgPositive
  ELSE IF r.type # "credit" /\ r.type # "debit"
    THEN MsgType
  ELSE ""

\* line 106 without the test
AccountNeverMissing(item) == FALSE

\* line 106: `!userResult.Item`
AccountMissing(item) == ~item.exists

\* an optimistic check that also refuses a projected balance of 0
OptimisticCheckInclusive(calculatedNewBalance) == calculatedNewBalance <= 0

\* an optimistic check that lets a projected balance of -1 through
OptimisticCheckOffByOne(calculatedNewBalance) == calculatedNewBalance < 0 - 1

\* transact, lines 116-119: the optimistic check
OptimisticCheckFails(calculatedNewBalance) == calculatedNewBalance < 0

\* a probe hit returned without the replay message
CachedResultNoIndication(r, item) == Success(item.transactionId, item.newBalance, "")

\* a replay that reports the account's balance at the time of the probe
CachedResultCurrentBalance(r, item) ==
  Success(item.transactionId, users[r.userId].balance, MsgIdempotent)

\* transact, lines 88-96: the result returned for request r when the probe
\* finds item
CachedResult(r, item) ==
  Success(item.transactionId, item.newBalance, MsgIdempotent)

\* a delta that forgets the sign of a debit
BalanceChangeUnsigned(type, numericAmount) == numericAmount

\* transact, line 113
BalanceChange(type, numericAmount) ==
  IF type = "credit" THEN numericAmount ELSE -numericAmount

\* a Put without its ConditionExpression
PutUnconditional(k) == TRUE

\* the ConditionExpression of the Put, line 163
PutCondition(k) == ~txns[k].exists

\* the balance condition put on every Update, credits included
UpdateConditionForAll(u, type, numericAmount) ==
  users[u].exists /\ users[u].balance >= numericAmount

\* an Update without the ConditionExpression of lines 137-141
UpdateUnconditional(u, type, numericAmount) == TRUE

\* the ConditionExpression of the Update, lines 138-141
UpdateCondition(u, type, numericAmount) ==
  type = "debit" => (users[u].exists /\ users[u].balance >= numericAmount)

\* a read-modify-write of the balance in place of the ADD
UpdatedUserOverwrite(c) ==
  [exists |-> TRUE, balance |-> c.local.calculatedNewBalance,
   createdAt |-> users[c.input.userId].createdAt, updatedAt |-> c.local.timestamp]

\* the Update of the Users item by call c, lines 127-135: ADD balance, SET updatedAt
UpdatedUser(c) ==
  [exists |-> TRUE, balance |-> users[c.input.userId].balance + c.local.balanceChange,
   createdAt |-> users[c.input.userId].createdAt, updatedAt |-> c.local.timestamp]

\* the item call c puts into the Transactions table, lines 154-162, its
\* transactionId (line 122) being id
TransactionItem(c, id) ==
  [exists |-> TRUE, transactionId |-> id, userId |-> c.input.userId,
   amount |-> c.local.numericAmount, type |-> c.input.type,
   newBalance |-> c.local.calculatedNewBalance, timestamp |-> c.local.timestamp]

\* ---------------------------------------------------------------- Init
TypeOK ==
  /\ \A c \in CallSet : c.pc \in {"lookup", "commit", "reread", "checkAgain",
                                  "replayRead", "balanceRead", "done"}
  /\ BagCardinality(calls) <= NumCalls
  /\ DOMAIN users = UserIds
  /\ DOMAIN txns = IdempotentKeys

InitCalls ==
  /\ txns = [k \in IdempotentKeys |-> NoTransaction]
  /\ calls = EmptyBag
  /\ nextId = 0
  /\ now = 0
  /\ balanceRead = [userId |-> "", balance |-> 0, error |-> ""]
  /\ creates = 0

\* one account, created by createUser("u1", b), and callers that send valid
\* requests of one unit for it
Init ==
  /\ InitCalls
  /\ \E b \in 0..MaxInitialBalance :
       /\ users = [u \in UserIds |-> IF u = "u1"
                     THEN [exists |-> TRUE, balance |-> b, createdAt |-> 0, updatedAt |-> 0]
                     ELSE NoUser]
       /\ initialBalance = [u \in UserIds |-> IF u = "u1" THEN b ELSE 0]
  /\ requests = [r \in {i \in TransactInput : /\ i.idempotentKey \in {"k1", "k2"}
                                               /\ i.userId = "u1"
                                               /\ i.amount = "1"} |-> NumCalls]

\* ------------------------------------------------------------- transact
\* a probe that takes a record for a replay only when it holds the request's
\* userId, amount and type
ProbedComparing(r) ==
  LET item == txns[r.idempotentKey]
      c == Call("probe", r, NoLocal, NoResult)
      same == /\ item.exists
              /\ item.userId = r.userId
              /\ item.amount = ParseFloat(r.amount).value
              /\ item.type = r.type
  IN IF Validate(r) # "" THEN Finished(c, Failure(Validate(r)))
     ELSE IF same THEN Finished(c, CachedResult(r, item))
     ELSE Call("lookup", r,
               [NoLocal EXCEPT !.numericAmount = ParseFloat(r.amount).value],
               NoResult)

\* lines 64-96: where a call with input r stands once its probe is answered
Probed(r) ==
  LET item == txns[r.idempotentKey]
      c == Call("probe", r, NoLocal, NoResult)
  IN IF Validate(r) # "" THEN Finished(c, Failure(Validate(r)))
     ELSE IF item.exists THEN Finished(c, CachedResult(r, item))
     ELSE Call("lookup", r,
               [NoLocal EXCEPT !.numericAmount = ParseFloat(r.amount).value],
               NoResult)

\* lines 64-96: a call begins: validation, then the idempotency probe
\* (validation touches no shared state, so the call is taken to begin when
\* its probe is answered)
Probe(r) ==
  /\ BagCardinality(calls) < NumCalls
  /\ requests[r] > 0
  /\ requests' = [requests EXCEPT ![r] = @ - 1]
  /\ calls' = calls (+) SetToBag({Probed(r)})
  /\ UNCHANGED <<users, txns, nextId, now, initialBalance, balanceRead, creates>>

\* an account lookup that files a refused debit under its key
LookupRecordingRefusal(c) ==
  /\ c.pc = "lookup"
  /\ LET item == users[c.input.userId]
         currentBalance == OrElse(item.balance, 0)
         balanceChange == BalanceChange(c.input.type, c.local.numericAmount)
         calculatedNewBalance == currentBalance + balanceChange
         refused == ~AccountMissing(item) /\ OptimisticCheckFails(calculatedNewBalance)
         d == IF AccountMissing(item) THEN Finished(c, Failure(MsgNotFound))
              ELSE IF refused THEN Finished(c, Failure(MsgInsufficient))
              ELSE Call("commit", c.input,
                        [c.local EXCEPT !.balanceChange = balanceChange,
                                        !.calculatedNewBalance = calculatedNewBalance,
                                        !.timestamp = now],
                        NoResult)
     IN /\ calls' = Replace(c, d)
        /\ txns' = IF refused /\ ~txns[c.input.idempotentKey].exists
                     THEN [txns EXCEPT ![c.input.idempotentKey] =
                             [TransactionItem(c, 0) EXCEPT !.newBalance = currentBalance]]
                     ELSE txns
  /\ UNCHANGED <<users, nextId, now, requests, initialBalance, balanceRead, creates>>

\* lines 104-173: the account read answers; delta, optimistic check, id and
\* timestamp, and the TransactWriteCommand is sent
Lookup(c) ==
  /\ c.pc = "lookup"
  /\ LET item == users[c.input.userId]
         currentBalance == OrElse(item.balance, 0)
         balanceChange == BalanceChange(c.input.type, c.local.numericAmount)
         calculatedNewBalance == currentBalance + balanceChange
         d == IF AccountMissing(item) THEN Finished(c, Failure(MsgNotFound))
              ELSE IF OptimisticCheckFails(calculatedNewBalance)
                THEN Finished(c, Failure(MsgInsufficient))
              ELSE Call("commit", c.input,
                        [c.local EXCEPT !.balanceChange = balanceChange,
                                        !.calculatedNewBalance = calculatedNewBalance,
                                        !.timestamp = now],
                        NoResult)
     IN calls' = Replace(c, d)
  /\ UNCHANGED <<users, txns, nextId, now, requests, initialBalance, balanceRead, creates>>

\* a commit whose Update is applied to every account of the Users table
CommitEveryAccount(c) ==
  /\ c.pc = "commit"
  /\ LET k == c.input.idempotentKey
         u == c.input.userId
     IN
       IF PutCondition(k) /\ UpdateCondition(u, c.input.type, c.local.numericAmount)
         THEN /\ nextId' = nextId + 1
              /\ txns' = [txns EXCEPT ![k] = TransactionItem(c, nextId + 1)]
              /\ users' = [v \in UserIds |->
                             IF users[v].exists
                               THEN [users[v] EXCEPT
                                       !.balance = @ + c.local.balanceChange,
                                       !.updatedAt = c.local.timestamp]
                               ELSE users[v]]
              /\ calls' = Replace(c, Call("reread", c.input,
                              [c.local EXCEPT !.transactionId = nextId + 1], NoResult))
         ELSE /\ calls' = Replace(c, Call("checkAgain", c.input, c.local, NoResult))
              /\ UNCHANGED <<users, txns, nextId>>
  /\ UNCHANGED <<now, requests, initialBalance, balanceRead, creates>>

\* line 173: the store executes the TransactWriteCommand, or cancels it
Commit(c) ==
  /\ c.pc = "commit"
  /\ LET k == c.input.idempotentKey
         u == c.input.userId
     IN
       IF PutCondition(k) /\ UpdateCondition(u, c.input.type, c.local.numericAmount)
         THEN /\ nextId' = nextId + 1
              /\ txns' = [txns EXCEPT ![k] = TransactionItem(c, nextId + 1)]
              /\ users' = [users EXCEPT ![u] = UpdatedUser(c)]
              /\ calls' = Replace(c, Call("reread", c.input,
                              [c.local EXCEPT !.transactionId = nextId + 1], NoResult))
         ELSE /\ calls' = Replace(c, Call("checkAgain", c.input, c.local, NoResult))
              /\ UNCHANGED <<users, txns, nextId>>
  /\ UNCHANGED <<now, requests, initialBalance, balanceRead, creates>>

\* lines 177-188: the read after the commit answers
Reread(c) ==
  /\ c.pc = "reread"
  /\ LET item == users[c.input.userId]
         actualNewBalance == IF item.exists
                               THEN OrElse(item.balance, c.local.calculatedNewBalance)
                               ELSE c.local.calculatedNewBalance
     IN calls' = Replace(c, Finished(c,
                   Success(c.local.transactionId, actualNewBalance, "")))
  /\ UNCHANGED <<users, txns, nextId, now, requests, initialBalance, balanceRead, creates>>

\* a second probe that waits for the record of the key to appear
CheckAgainWaits(c) ==
  /\ c.pc = "checkAgain"
  /\ LET item == txns[c.input.idempotentKey]
         d == IF item.exists
                THEN Call("replayRead", c.input,
                          [c.local EXCEPT !.foundTransactionId = item.transactionId,
                                          !.foundNewBalance = item.newBalance],
                          NoResult)
                ELSE c
     IN calls' = Replace(c, d)
  /\ UNCHANGED <<users, txns, nextId, now, requests, initialBalance, balanceRead, creates>>

\* lines 191-200 and 212-216: after a cancellation the probe is sent again
CheckAgain(c) ==
  /\ c.pc = "checkAgain"
  /\ LET item == txns[c.input.idempotentKey]
         d == IF item.exists
                THEN Call("replayRead", c.input,
                          [c.local EXCEPT !.foundTransactionId = item.transactionId,
                                          !.foundNewBalance = item.newBalance],
                          NoResult)
                ELSE Call("balanceRead", c.input, c.local, NoResult)
     IN calls' = Replace(c, d)
  /\ UNCHANGED <<users, txns, nextId, now, requests, initialBalance, balanceRead, creates>>

\* lines 200-208: the lost race is answered with the winner's record
ReplayRead(c) ==
  /\ c.pc = "replayRead"
  /\ LET item == users[c.input.userId]
         currentActualBalance == IF item.exists
                                   THEN OrElse(item.balance, c.local.foundNewBalance)
                                   ELSE c.local.foundNewBalance
     IN calls' = Replace(c, Finished(c,
                   Success(c.local.foundTransactionId, currentActualBalance,
                           MsgIdempotentConcurrent)))
  /\ UNCHANGED <<users, txns, nextId, now, requests, initialBalance, balanceRead, creates>>

\* a catch block that puts every unexplained cancellation down to concurrency
BalanceReadNeverInsufficient(c) ==
  /\ c.pc = "balanceRead"
  /\ calls' = Replace(c, Finished(c, Failure(MsgConcurrent)))
  /\ UNCHANGED <<users, txns, nextId, now, requests, initialBalance, balanceRead, creates>>

\* a catch block that goes back to the account lookup when the re-read
\* balance covers the request
BalanceReadRetrying(c) ==
  /\ c.pc = "balanceRead"
  /\ LET item == users[c.input.userId]
         latestBalance == IF item.exists THEN OrElse(item.balance, 0) ELSE 0
         wouldBeBalance == latestBalance + c.local.balanceChange
     IN calls' = Replace(c, IF wouldBeBalance < 0
                              THEN Finished(c, Failure(MsgInsufficient))
                              ELSE Call("lookup", c.input, c.local, NoResult))
  /\ UNCHANGED <<users, txns, nextId, now, requests, initialBalance, balanceRead, creates>>

\* lines 216-224: the cancellation is put down to the balance
BalanceRead(c) ==
  /\ c.pc = "balanceRead"
  /\ LET item == users[c.input.userId]
         latestBalance == IF item.exists THEN OrElse(item.balance, 0) ELSE 0
         wouldBeBalance == latestBalance + c.local.balanceChange
     IN calls' = Replace(c, Finished(c,
                   IF wouldBeBalance < 0 THEN Failure(MsgInsufficient)
                                         ELSE Failure(MsgConcurrent)))
  /\ UNCHANGED <<users, txns, nextId, now, requests, initialBalance, balanceRead, creates>>

\* ---------------------------------------------- the other operations
\* createUser, lines 237-249: an unconditional PutCommand
CreateUser(u, b) ==
  /\ creates < MaxCreates
  /\ creates' = creates + 1
  /\ users' = [users EXCEPT ![u] =
         [exists |-> TRUE, balance |-> b, createdAt |-> now, updatedAt |-> now]]
  /\ initialBalance' = [initialBalance EXCEPT ![u] = b]
  /\ UNCHANGED <<txns, calls, nextId, now, requests, balanceRead>>

\* getCurrentBalance without the test of lines 32-34
GetCurrentBalanceOfAbsent(u) ==
  /\ balanceRead' =
       IF u = "" THEN [userId |-> u, balance |-> 0, error |-> "userId is required"]
       ELSE [userId |-> u, balance |-> OrElse(users[u].balance, 0), error |-> ""]
  /\ UNCHANGED <<users, txns, calls, nextId, now, requests, initialBalance, creates>>

\* getCurrentBalance, lines 19-48
GetCurrentBalance(u) ==
  /\ balanceRead' =
       IF u = "" THEN [userId |-> u, balance |-> 0, error |-> "userId is required"]
       ELSE IF ~users[u].exists THEN [userId |-> u, balance |-> 0, error |-> MsgNotFound]
       ELSE [userId |-> u, balance |-> OrElse(users[u].balance, 0), error |-> ""]
  /\ UNCHANGED <<users, txns, calls, nextId, now, requests, initialBalance, creates>>

Next ==
  \/ \E r \in DOMAIN requests : Probe(r)
  \/ \E c \in CallSet : Lookup(c)
  \/ \E c \in CallSet : Commit(c)
  \/ \E c \in CallSet : Reread(c)
  \/ \E c \in CallSet : CheckAgain(c)
  \/ \E c \in CallSet : ReplayRead(c)
  \/ \E c \in CallSet : BalanceRead(c)

Spec == Init /\ [][Next]_vars

\* the store answers a request that a call is waiting on
Respond ==
  \E c \in CallSet :
    \/ Lookup(c) \/ Commit(c) \/ Reread(c)
    \/ CheckAgain(c) \/ ReplayRead(c) \/ BalanceRead(c)

\* the callers of Spec on an account created with balance 0 or 1, so that
\* debits are refused, cancelled and let through
InitLive == Init /\ initialBalance["u1"] <= 1

\* these calls against a store that answers every request in the end
SpecLive == InitLive /\ [][Next]_vars /\ WF_vars(Respond)

\* all three operations of the service, on empty tables, the callers sending
\* one credit and one debit of one unit under one key
InitOps ==
  /\ InitCalls
  /\ users = [u \in UserIds |-> NoUser]
  /\ initialBalance = [u \in UserIds |-> 0]
  /\ requests = [r \in {i \in TransactInput :
                      i.idempotentKey = "k1" /\ i.userId = "u1" /\ i.amount = "1"} |-> 1]

\* the accounts the callers work on
RequestUsers == {r.userId : r \in DOMAIN requests}

NextOps ==
  \/ Next
  \/ \E u \in RequestUsers, b \in InitialBalances : CreateUser(u, b)
  \/ \E u \in RequestUsers \cup {""} : GetCurrentBalance(u)

SpecOps == InitOps /\ [][NextOps]_vars

\* callers sending every shape of input to transact: the well-formed credit
\* of one unit under key k1 and the inputs that differ from it in one field,
\* a debit under key k2, on the account u1 and on the userIds u2 and
\* retry-user that have no account
BaseInput == [idempotentKey |-> "k1", userId |-> "u1", amount |-> "1", type |-> "credit"]

\* amount strings a caller may send besides "1": absent or empty, zero,
\* negative, not a number, a number followed by a letter
OtherAmounts == {"", "0", "-1", "abc", "2x"}

\* type strings a caller may send besides "credit"
OtherTypes == {"", "invalid", "debit"}

InputShapes ==
  {BaseInput, [BaseInput EXCEPT !.idempotentKey = ""], [BaseInput EXCEPT !.userId = ""]}
    \cup {[BaseInput EXCEPT !.amount = a] : a \in OtherAmounts}
    \cup {[BaseInput EXCEPT !.type = t] : t \in OtherTypes}
    \cup {[BaseInput EXCEPT !.idempotentKey = "k2", !.type = "debit"]}
    \cup {[BaseInput EXCEPT !.userId = "retry-user"]}
    \cup {[BaseInput EXCEPT !.userId = "u2"],
          [BaseInput EXCEPT !.userId = "u2", !.amount = "0"],
          [BaseInput EXCEPT !.userId = "u2", !.type = "invalid"]}

InitInputs ==
  /\ InitCalls
  /\ \E b \in 0..MaxInitialBalance :
       /\ users = [u \in UserIds |-> IF u = "u1"
                     THEN [exists |-> TRUE, balance |-> b, createdAt |-> 0, updatedAt |-> 0]
                     ELSE NoUser]
       /\ initialBalance = [u \in UserIds |-> IF u = "u1" THEN b ELSE 0]
  /\ requests = [r \in InputShapes |-> 1]

SpecInputs == InitInputs /\ [][Next]_vars

\* a caller that was told to retry sends the identical request again
\* (readme.md line 316; transact, lines 60-96)
Retry(c) ==
  /\ c.pc = "done"
  /\ c.result = Failure(MsgConcurrent)
  /\ BagCardinality(calls) < NumCalls + MaxRetries
  /\ calls' = calls (+) SetToBag({Probed(c.input)})
  /\ UNCHANGED <<users, txns, nextId, now, requests, initialBalance, balanceRead, creates>>

\* callers sending two debits under key k1, a debit under key k2 and a credit
\* under key k3, each of one unit, and retrying on the retry error
InitRetry ==
  /\ InitCalls
  /\ \E b \in 0..MaxInitialBalance :
       /\ users = [u \in UserIds |-> IF u = "u1"
                     THEN [exists |-> TRUE, balance |-> b, createdAt |-> 0, updatedAt |-> 0]
                     ELSE NoUser]
       /\ initialBalance = [u \in UserIds |-> IF u = "u1" THEN b ELSE 0]
  /\ requests =
       [BaseInput EXCEPT !.type = "debit"] :> 2
         @@ [BaseInput EXCEPT !.idempotentKey = "k2", !.type = "debit"] :> 1
         @@ [BaseInput EXCEPT !.idempotentKey = "k3"] :> 1

NextRetry ==
  \/ Next
  \/ \E c \in CallSet : Retry(c)

SpecRetry == InitRetry /\ [][NextRetry]_vars

\* the clock read by `new Date()` (line 123) moves on
Tick ==
  /\ now < MaxTime
  /\ now' = now + 1
  /\ UNCHANGED <<users, txns, calls, nextId, requests, initialBalance, balanceRead, creates>>

\* the callers of InitRetry, not retrying, while the clock runs
NextClock ==
  \/ Next
  \/ Tick

SpecClock == InitRetry /\ [][NextClock]_vars

\* two accounts in the Users table: the callers send two debits of one unit
\* under keys k1 and k2 on account u1 and a credit of one unit under key k1 on
\* account u2
InitAccounts ==
  /\ InitCalls
  /\ \E b \in 0..MaxInitialBalance :
       /\ users = [u \in UserIds |->
                     IF u = "u1"
                       THEN [exists |-> TRUE, balance |-> b, createdAt |-> 0, updatedAt |-> 0]
                     ELSE IF u = "u2"
                       THEN [exists |-> TRUE, balance |-> 0, createdAt |-> 0, updatedAt |-> 0]
                     ELSE NoUser]
       /\ initialBalance = [u \in UserIds |-> IF u = "u1" THEN b ELSE 0]
  /\ requests =
       [BaseInput EXCEPT !.type = "debit"] :> 1
         @@ [BaseInput EXCEPT !.idempotentKey = "k2", !.type = "debit"] :> 1
         @@ [BaseInput EXCEPT !.userId = "u2"] :> 1

\* these calls while the clock runs
SpecAccounts == InitAccounts /\ [][NextClock]_vars

\* ------------------------------------------------------------ vocabulary
Done(c) == c.pc = "done"
Succeeded(c) == Done(c) /\ c.result.outcome = "success"
Failed(c) == Done(c) /\ c.result.outcome = "error"
Quiescent == \A c \in CallSet : Done(c)
CallsWithKey(k) == {c \in CallSet : c.input.idempotentKey = k}

\* call d has just returned or thrown
FinishedNow(d) == Done(d) /\ CopiesIn(d, calls') > CopiesIn(d, calls)

\* call c has just moved on to d
Stepped(c, d) == c # d /\ calls' = Replace(c, d)

RECURSIVE SetSum(_, _)
SetSum(S, f) ==
  IF S = {} THEN 0
  ELSE LET x == CHOOSE y \in S : TRUE IN f[x] + SetSum(S \ {x}, f)

\* the signed amount of a request: +amount for a credit, -amount for a debit
RequestDelta(r) == BalanceChange(r.type, ParseFloat(r.amount).value)

\* the signed amount of a ledger record
RecordDelta(item) == BalanceChange(item.type, item.amount)

\* the sum of the signed amounts of the ledger records that reference u
LedgerSum(u) ==
  SetSum({k \in IdempotentKeys : txns[k].exists /\ txns[k].userId = u},
         [k \in IdempotentKeys |-> RecordDelta(txns[k])])

\* callers that send one call at a time: a call begins when none is in flight
ProbeAlone(r) == Quiescent /\ Probe(r)

\* one call at a time: no commit is ever cancelled, so the steps of the catch
\* block never come due
NextSequential ==
  \/ \E r \in DOMAIN requests : ProbeAlone(r)
  \/ \E c \in CallSet : Lookup(c)
  \/ \E c \in CallSet : Commit(c)
  \/ \E c \in CallSet : Reread(c)

SpecSequential == Init /\ [][NextSequential]_vars

\* ---------------------------------------------------------------- claims
\* C1: exactly-once application.  When the calls carrying a key all carry the
\* same request, their successful results carry one transactionId; and once
\* no call is in flight, the balance of the account differs from the balance
\* it was created with by the delta of each key that had a successful call,
\* counted once (and by nothing for a key without one).
ExactlyOnce ==
  (\A c, d \in CallSet : c.input.idempotentKey = d.input.idempotentKey => c.input = d.input)
    => /\ \A c, d \in CallSet :
            (Succeeded(c) /\ Succeeded(d) /\ c.input = d.input)
              => c.result.transactionId = d.result.transactionId
       /\ Quiescent =>
            users["u1"].balance = initialBalance["u1"] +
              SetSum({k \in IdempotentKeys : \E c \in CallsWithKey(k) : Succeeded(c)},
                     [k \in IdempotentKeys |->
                        IF CallsWithKey(k) = {} THEN 0
                        ELSE RequestDelta((CHOOSE c \in CallsWithKey(k) : TRUE).input)])

\* three finished calls carried the same request and all succeeded: one
\* committed, one lost the race at the commit, one found the record
ExactlyOnceWitness ==
  /\ Quiescent
  /\ BagCardinality(calls) = 3
  /\ \A c, d \in CallSet : c.input = d.input /\ Succeeded(c)
  /\ \E c \in CallSet : c.result.message = ""
  /\ \E c \in CallSet : c.result.message = MsgIdempotentConcurrent
  /\ \E c \in CallSet : c.result.message = MsgIdempotent

\* C2: non-negativity.  No stored balance is negative and getCurrentBalance
\* never returns a negative balance.
NonNegativeBalance ==
  /\ \A u \in UserIds : users[u].exists => users[u].balance >= 0
  /\ balanceRead.error = "" => balanceRead.balance >= 0

NoLoserFails ==
  [][\A d \in BagToSet(calls') :
       LET item == txns[d.input.idempotentKey] IN
         ( /\ FinishedNow(d)
           /\ item.exists
           /\ item.userId = d.input.userId
           /\ item.type = d.input.type
           /\ item.amount = ParseFloat(d.input.amount).value )
         => /\ d.result.outcome = "success"
            /\ d.result.transactionId = item.transactionId]_vars

\* C5: atomic pairing of ledger and balance.  The balance of every account is
\* the balance it was created with plus the signed amounts of the ledger
\* records that reference it.
LedgerBalancePaired ==
  \A u \in UserIds :
    users[u].exists => users[u].balance = initialBalance[u] + LedgerSum(u)

\* a credit and a debit are both in the ledger while a third call is in flight
LedgerBalanceWitness ==
  /\ \E k1, k2 \in IdempotentKeys :
       /\ txns[k1].exists /\ txns[k1].type = "credit"
       /\ txns[k2].exists /\ txns[k2].type = "debit"
  /\ \E c \in CallSet : c.pc = "commit"

\* C6: rejection correctness.  When the account read of a debit with an unused
\* key shows a balance below the amount, the call ends there with
\* "Insufficient balance" and neither table changes.
InsufficientRejected ==
  [][\A c \in CallSet : \A d \in BagToSet(calls') :
       ( /\ Stepped(c, d)
         /\ c.pc = "lookup"
         /\ c.input.type = "debit"
         /\ users[c.input.userId].exists
         /\ c.local.numericAmount > users[c.input.userId].balance )
       => /\ d = Finished(c, Failure(MsgInsufficient))
          /\ users' = users
          /\ txns' = txns]_vars

\* a debit was refused for funds and its key has no record
InsufficientWitness ==
  \E c \in CallSet :
    /\ Failed(c) /\ c.result.message = MsgInsufficient
    /\ c.input.type = "debit"
    /\ ~txns[c.input.idempotentKey].exists
    /\ users[c.input.userId].balance = 0

\* C7: ledger uniqueness and immutability.  The record of a key, once it
\* exists, is never replaced, changed or removed.
LedgerImmutable ==
  [][\A k \in IdempotentKeys : txns[k].exists => txns'[k] = txns[k]]_vars

\* a call raced on a key that has a record: its commit was cancelled
LedgerImmutableWitness ==
  \E c \in CallSet :
    /\ c.pc = "checkAgain"
    /\ txns[c.input.idempotentKey].exists

\* C8 as stated: a replay found by the probe reports the recorded
\* transactionId and the balance the account has at that moment.
ReplayReportsCurrentBalance ==
  [][\A d \in BagToSet(calls') :
       (FinishedNow(d) /\ d.result.message = MsgIdempotent)
         => /\ d.result.transactionId = txns[d.input.idempotentKey].transactionId
            /\ d.result.newBalance = users[d.input.userId].balance]_vars

\* C8 amended: a replay found by the probe reports the recorded transactionId
\* and the newBalance stored in the record, with the replay message.
ReplayReportsRecordedBalance ==
  \A c \in CallSet :
    (Done(c) /\ c.result.message = MsgIdempotent)
      => /\ c.result.outcome = "success"
         /\ txns[c.input.idempotentKey].exists
         /\ c.result.transactionId = txns[c.input.idempotentKey].transactionId
         /\ c.result.newBalance = txns[c.input.idempotentKey].newBalance

\* a replay was served although the account has moved since the record
ReplayWitness ==
  \E c \in CallSet :
    /\ Done(c) /\ c.result.message = MsgIdempotent
    /\ c.result.newBalance # users[c.input.userId].balance

\* C9: same key, same result.  Two successful calls with one key return the
\* same transactionId and the same newBalance.
SameKeySameResult ==
  \A c, d \in CallSet :
    (Succeeded(c) /\ Succeeded(d) /\ c.input.idempotentKey = d.input.idempotentKey)
      => /\ c.result.transactionId = d.result.transactionId
         /\ c.result.newBalance = d.result.newBalance

\* C10: snapshot correctness.  The newBalance of a record is the balance of
\* its account right after the commit that created the record.
SnapshotCorrect ==
  [][\A k \in IdempotentKeys :
       (~txns[k].exists /\ txns'[k].exists)
         => txns'[k].newBalance = users'[txns'[k].userId].balance]_vars

\* the amount strings that denote a strictly positive number
PositiveNumbers == {"1", "2"}

\* the InvalidInput errors of transact
InvalidInputMessages == {MsgRequired, MsgPositive, MsgType}

\* the input is not of the shape transact asks for
InvalidShape(r) ==
  \/ r.idempotentKey = ""
  \/ r.userId = ""
  \/ r.amount \notin PositiveNumbers
  \/ r.type \notin Types

\* C11: validation precedes storage.  A call whose idempotentKey or userId is
\* empty, whose amount is missing or is not a strictly positive number, or
\* whose type is neither 'credit' nor 'debit' ends at once with an InvalidInput
\* error: it never waits for an answer of a table, and both tables stay as
\* they are, whether or not the key has a record or the account exists.
ValidationPrecedesStorage ==
  [][\A d \in BagToSet(calls') :
       (CopiesIn(d, calls') > CopiesIn(d, calls) /\ InvalidShape(d.input))
         => /\ Failed(d)
            /\ d.result.message \in InvalidInputMessages
            /\ users' = users
            /\ txns' = txns]_vars

\* C12: AccountNotFound.  When the account read of a call finds no account
\* (the input was valid and the probe found no record for the key), the call
\* ends there with 'User not found'; no account is created and no record is
\* inserted.
AccountNotFound ==
  [][\A c \in CallSet : \A d \in BagToSet(calls') :
       ( /\ Stepped(c, d)
         /\ c.pc = "lookup"
         /\ ~users[c.input.userId].exists )
       => /\ d = Finished(c, Failure(MsgNotFound))
          /\ users' = users
          /\ txns' = txns]_vars

\* a credit to the userId without account has been refused; the userId still
\* has no account and the key still has no record
AccountNotFoundWitness ==
  \E c \in CallSet :
    /\ Failed(c) /\ c.result.message = MsgNotFound
    /\ c.input.userId = "u2"
    /\ ~users["u2"].exists
    /\ ~txns[c.input.idempotentKey].exists

\* the result of a call that committed its own record: success without the
\* replay message
Fresh(c) == Succeeded(c) /\ c.result.message = ""

\* the result of a call served from a record that was already there
Replayed(c) == Succeeded(c) /\ c.result.message \in {MsgIdempotent, MsgIdempotentConcurrent}

\* C13: effect footprint of transact.  The tables change only in the commit
\* step of a call, which inserts one record under the call's key (no record
\* was there), changes the balance of the call's account by the call's delta
\* and touches nothing else; a call returns a fresh success exactly when it
\* has made that step, so a call that returns a replay or an error has
\* changed neither table.
EffectFootprint ==
  [][/\ (users' # users \/ txns' # txns) =>
          \E c \in CallSet : \E d \in BagToSet(calls') :
            LET k == c.input.idempotentKey
                u == c.input.userId
            IN /\ Stepped(c, d)
               /\ c.pc = "commit" /\ d.pc = "reread"
               /\ ~txns[k].exists /\ txns'[k].exists
               /\ \A j \in IdempotentKeys \ {k} : txns'[j] = txns[j]
               /\ users'[u].balance = users[u].balance + RequestDelta(c.input)
               /\ \A v \in UserIds \ {u} : users'[v] = users[v]
     /\ \A c \in CallSet : \A d \in BagToSet(calls') :
          Stepped(c, d) =>
            /\ d.pc = "reread" => (c.pc = "commit" /\ users' # users /\ txns' # txns)
            /\ c.pc = "reread" => Fresh(d)
     /\ \A d \in BagToSet(calls') :
          (FinishedNow(d) /\ Fresh(d)) =>
             \E c \in CallSet : Stepped(c, d) /\ c.pc = "reread"]_vars

\* one call has returned a fresh success, one a replay and one an error; the
\* ledger holds one record and the balance has moved by one delta
EffectFootprintWitness ==
  /\ \E c \in CallSet :
       /\ Fresh(c)
       /\ users[c.input.userId].balance =
            initialBalance[c.input.userId] + RequestDelta(c.input)
  /\ \E c \in CallSet : Replayed(c)
  /\ \E c \in CallSet : Failed(c)
  /\ Cardinality({k \in IdempotentKeys : txns[k].exists}) = 1

\* among the calls of each key at most one has returned a fresh success, and
\* it is the one whose commit inserted the record; every other successful
\* call carries the replay message; once no call is in flight, a key with a
\* successful call has its fresh one
OneFreshPerKey ==
  \A k \in IdempotentKeys :
    LET F == {c \in CallsWithKey(k) : Fresh(c)}
    IN /\ Cardinality(F) <= 1
       /\ \A c \in F : /\ CopiesIn(c, calls) = 1
                       /\ txns[k].exists
                       /\ txns[k].transactionId = c.result.transactionId
       /\ \A c \in CallsWithKey(k) : Succeeded(c) => (Fresh(c) \/ Replayed(c))
       /\ (Quiescent /\ \E c \in CallsWithKey(k) : Succeeded(c)) => F # {}

\* C14: fresh versus replay indication.  Among the successful calls of one
\* key exactly one, the call whose commit inserted the record, returns
\* without the replay message and every other one returns with it; and a
\* call returns with the replay message only when a record for its key
\* exists at that moment.
FreshVersusReplay ==
  [][/\ OneFreshPerKey'
     /\ \A d \in BagToSet(calls') :
          (FinishedNow(d) /\ Replayed(d)) =>
             /\ txns[d.input.idempotentKey].exists
             /\ d.result.transactionId = txns[d.input.idempotentKey].transactionId]_vars

\* three calls of one key have succeeded: the committer without the replay
\* message, the loser of the race and a later call with it
FreshVersusReplayWitness ==
  /\ Quiescent
  /\ \E k \in IdempotentKeys :
       /\ Cardinality({c \in CallsWithKey(k) : Fresh(c)}) = 1
       /\ \E c \in CallsWithKey(k) : c.result.message = MsgIdempotent
       /\ \E c \in CallsWithKey(k) : c.result.message = MsgIdempotentConcurrent

\* the balance of u1 is the balance it was created with plus the delta of
\* each request whose key has a record, counted once
AppliedAtMostOnce ==
  users["u1"].balance = initialBalance["u1"] +
    SetSum({r \in DOMAIN requests : txns[r.idempotentKey].exists},
           [r \in DOMAIN requests |-> RequestDelta(r)])

\* C15: ConcurrencyConflict is safe to retry.  A call fails with the retry
\* error only after its commit was cancelled and its second probe found no
\* record, and none of these steps changes a table; and however often the
\* identical request is sent again, alongside the other calls, the delta of
\* each request is in the balance at most once.
ConflictSafeToRetry ==
  [][/\ \A c \in CallSet : \A d \in BagToSet(calls') :
          Stepped(c, d) =>
            /\ (Failed(d) /\ d.result.message = MsgConcurrent) => c.pc = "balanceRead"
            /\ d.pc = "balanceRead" => c.pc = "checkAgain"
            /\ d.pc = "checkAgain" => c.pc = "commit"
            /\ d.pc \in {"checkAgain", "balanceRead", "done"} =>
                 (users' = users /\ txns' = txns)
     /\ AppliedAtMostOnce']_vars

\* a debit failed with the retry error, the identical request was sent again
\* and has committed: its delta is in the balance once
ConflictSafeToRetryWitness ==
  \E c, d \in CallSet :
    /\ Failed(c) /\ c.result.message = MsgConcurrent
    /\ Fresh(d) /\ d.input = c.input
    /\ BagCardinality(calls) > NumCalls
    /\ users["u1"].balance = initialBalance["u1"] - 1

\* the balance a call at its commit read from the account (line 110)
BalanceSeen(c) == c.local.calculatedNewBalance - c.local.balanceChange

\* C16: read-to-write balance check.  The commit of a call goes through only
\* if the balance of the account at the commit is the balance the call read;
\* otherwise it is cancelled and both tables stay as they are.
ReadToWriteBalanceCheck ==
  [][\A c \in CallSet : \A d \in BagToSet(calls') :
       (Stepped(c, d) /\ c.pc = "commit") =>
         IF users[c.input.userId].balance = BalanceSeen(c)
           THEN TRUE
           ELSE d.pc = "checkAgain" /\ users' = users /\ txns' = txns]_vars

\* C17: getCurrentBalance.  A call for an existing account returns the userId
\* and the stored balance of the account, a call for a userId without account
\* fails with 'User not found', and neither table changes.
GetBalanceCorrect ==
  [][(balanceRead' # balanceRead /\ balanceRead'.userId # "") =>
       LET u == balanceRead'.userId
       IN /\ IF users[u].exists
               THEN balanceRead' = [userId |-> u, balance |-> users[u].balance, error |-> ""]
               ELSE balanceRead'.error = MsgNotFound
          /\ users' = users
          /\ txns' = txns]_vars

\* the balance of an account that a transaction has moved has been read:
\* the read returned the stored balance
GetBalanceWitness ==
  /\ txns["k1"].exists
  /\ users["u1"].balance # initialBalance["u1"]
  /\ balanceRead = [userId |-> "u1", balance |-> users["u1"].balance, error |-> ""]

\* C18: account lifecycle.  The balance of an existing account changes only
\* in the commit step of a transact call on that account, and an existing
\* account is never removed: createUser with the userId of an existing
\* account, getCurrentBalance and the other steps of transact leave it alone.
AccountLifecycle ==
  [][\A u \in UserIds :
       (users[u].exists /\ users'[u] # users[u]) =>
          /\ users'[u].exists
          /\ \E c \in CallSet : \E d \in BagToSet(calls') :
               /\ Stepped(c, d)
               /\ c.pc = "commit" /\ d.pc = "reread"
               /\ c.input.userId = u]_vars

\* the amounts of the ledger records of the given type that reference u
LedgerAmounts(u, type) ==
  SetSum({k \in IdempotentKeys :
            txns[k].exists /\ txns[k].userId = u /\ txns[k].type = type},
         [k \in IdempotentKeys |-> txns[k].amount])

\* C19: authoritative debit guard.  The commit of a debit goes through only
\* if the balance of the account at the commit is at least the amount,
\* whatever balance the call read; hence the amounts of the committed debits
\* of an account never sum to more than the balance it was created with plus
\* its committed credits.
DebitGuard ==
  [][/\ \A c \in CallSet : \A d \in BagToSet(calls') :
          ( /\ Stepped(c, d)
            /\ c.pc = "commit" /\ d.pc = "reread"
            /\ c.input.type = "debit" )
          => users[c.input.userId].balance >= c.local.numericAmount
     /\ \A u \in UserIds :
          users'[u].exists =>
            LedgerAmounts(u, "debit")' <= initialBalance'[u] + LedgerAmounts(u, "credit")']_vars

\* two debits with distinct keys both read balance 1; one has committed and
\* the commit of the other, whose optimistic check had passed, was cancelled
DebitGuardWitness ==
  /\ initialBalance["u1"] = 1
  /\ users["u1"].balance = 0
  /\ \E c \in CallSet :
       /\ c.pc = "checkAgain"
       /\ c.input.type = "debit"
       /\ BalanceSeen(c) = 1
       /\ ~txns[c.input.idempotentKey].exists

\* C20: post-commit balance report.  A call whose commit went through returns
\* as newBalance the balance it reads from the account after the commit,
\* whatever that balance is (0 included), with its own transactionId and no
\* replay message.
PostCommitBalanceReport ==
  [][\A c \in CallSet : \A d \in BagToSet(calls') :
       (Stepped(c, d) /\ c.pc = "reread" /\ users[c.input.userId].exists)
         => d = Finished(c, Success(c.local.transactionId,
                                    users[c.input.userId].balance, ""))]_vars

\* C21: duplicate-key race resolution.  A call whose commit was cancelled and
\* whose second probe found the winner's record returns success with the
\* winner's transactionId, the replay message and the balance it reads from
\* the account at that moment, whatever that balance is (0 included); it
\* changes neither table.
DuplicateRaceReportsBalance ==
  [][\A c \in CallSet : \A d \in BagToSet(calls') :
       (Stepped(c, d) /\ c.pc = "replayRead" /\ users[c.input.userId].exists)
         => /\ d = Finished(c, Success(txns[c.input.idempotentKey].transactionId,
                                       users[c.input.userId].balance,
                                       MsgIdempotentConcurrent))
            /\ users' = users
            /\ txns' = txns]_vars

\* call c has re-read a balance that covers its request after its commit was
\* cancelled and its second probe found no record
BalanceMovedFavorably(c) ==
  /\ c.pc = "balanceRead"
  /\ users[c.input.userId].balance + c.local.balanceChange >= 0

\* C22 as stated: when the commit of a debit was cancelled by the balance
\* condition and the re-read balance covers the request, the call goes back
\* to the account lookup and tries once more.
BalanceGuardRetriesOnce ==
  [][\A c \in CallSet : \A d \in BagToSet(calls') :
       (Stepped(c, d) /\ BalanceMovedFavorably(c)) => d.pc = "lookup"]_vars

\* C22 amended: when the commit of a debit was cancelled by the balance
\* condition and the re-read balance covers the request, the call fails at
\* once with the retry error, having changed neither table; it does not try
\* again by itself.
BalanceGuardFailsWithRetryError ==
  [][\A c \in CallSet : \A d \in BagToSet(calls') :
       (Stepped(c, d) /\ BalanceMovedFavorably(c))
         => /\ d = Finished(c, Failure(MsgConcurrent))
            /\ users' = users
            /\ txns' = txns]_vars

\* a debit has failed with the retry error and the balance covers it: the
\* call was not repeated, the caller has sent it again and it is in flight
BalanceGuardWitness ==
  \E c, d \in CallSet :
    /\ c.input.type = "debit"
    /\ c.result = Failure(MsgConcurrent)
    /\ users[c.input.userId].balance >= 1
    /\ d.input = c.input /\ d.pc = "commit"

\* call c is a debit whose commit was cancelled, whose second probe found no
\* record and whose amount the account does not cover
StillInsufficient(c) ==
  /\ c.pc = "balanceRead"
  /\ c.input.type = "debit"
  /\ users[c.input.userId].balance - ParseFloat(c.input.amount).value < 0

\* C23: balance-guard rejection with still-insufficient funds.  When the
\* commit of a debit was cancelled, the second probe found no record for its
\* key and the re-read balance minus the amount is negative, the call ends
\* with 'Insufficient balance'; it does not go back to an earlier step and
\* neither table changes.
StillInsufficientRejected ==
  [][\A c \in CallSet : \A d \in BagToSet(calls') :
       (Stepped(c, d) /\ StillInsufficient(c))
         => /\ d = Finished(c, Failure(MsgInsufficient))
            /\ users' = users
            /\ txns' = txns]_vars

\* a debit that read balance 1 had its commit cancelled because another debit
\* took the unit; its second probe found no record and its re-read of the
\* account is due
StillInsufficientWitness ==
  \E c \in CallSet :
    /\ StillInsufficient(c)
    /\ BalanceSeen(c) = 1
    /\ users["u1"].balance = 0
    /\ ~txns[c.input.idempotentKey].exists
    /\ \E e \in CallSet : Fresh(e) /\ e.input.type = "debit"

\* C24: bounded retries.  A call sends its commit at most twice; in the code
\* it sends it once: a call comes to its commit only from its account
\* lookup, which it makes once, at its beginning, and after a cancellation
\* (for a duplicate key or for the balance) it only reads and then ends.
BoundedCommits ==
  [][\A c \in CallSet : \A d \in BagToSet(calls') :
       Stepped(c, d) =>
         /\ d.pc # "lookup"
         /\ d.pc = "commit" => c.pc = "lookup"
         /\ c.pc = "commit" => d.pc \in {"reread", "checkAgain"}
         /\ c.pc = "checkAgain" => d.pc \in {"replayRead", "balanceRead"}
         /\ c.pc \in {"reread", "replayRead", "balanceRead"} => Done(d)
         /\ ~Done(c)]_vars

\* a debit whose commit was cancelled for the balance has ended with the retry
\* error although the account would now cover it: it has sent no second
\* commit, its key has no record
BoundedCommitsWitness ==
  /\ Quiescent
  /\ \E c \in CallSet :
       /\ c.result = Failure(MsgConcurrent)
       /\ c.input.type = "debit"
       /\ ~txns[c.input.idempotentKey].exists
       /\ users[c.input.userId].balance >= 1

\* the call has ended in one of the outcomes of transact
TerminalOutcome(c) ==
  \/ Fresh(c)
  \/ Replayed(c)
  \/ /\ Failed(c)
     /\ c.result.message \in
          InvalidInputMessages \cup {MsgNotFound, MsgInsufficient, MsgConcurrent}

\* C25: termination.  When the store answers every request in the end, every
\* call in flight comes to an end, however many calls run on the same account
\* and key, and a call that has ended has one of the terminal outcomes.
Termination ==
  /\ [](\A c \in CallSet : Done(c) => TerminalOutcome(c))
  /\ (~Quiescent ~> Quiescent)

\* as many calls as the callers make have ended, among them the loser of a
\* race for a key and a call whose commit was cancelled for the balance
TerminationWitness ==
  /\ Quiescent
  /\ BagCardinality(calls) = NumCalls
  /\ \E c \in CallSet : c.result.message = MsgIdempotentConcurrent
  /\ \E c \in CallSet : Failed(c)

\* C26: ConcurrencyConflict only when unexplained.  A call fails with the
\* retry error only after its commit was cancelled, its second probe found
\* no record for its key and its re-read of the account showed a balance that
\* covers the request; when the second probe finds a record the call returns
\* a replay, and when the re-read balance does not cover the request it fails
\* with 'Insufficient balance'.
ConflictOnlyUnexplained ==
  [][\A c \in CallSet : \A d \in BagToSet(calls') :
       LET k == c.input.idempotentKey
           covered == users[c.input.userId].balance + RequestDelta(c.input) >= 0
       IN Stepped(c, d) =>
            /\ d.pc = "checkAgain" => (c.pc = "commit" /\ users' = users /\ txns' = txns)
            /\ d.pc = "balanceRead" => (c.pc = "checkAgain" /\ ~txns[k].exists)
            /\ d.result = Failure(MsgConcurrent) => (c.pc = "balanceRead" /\ covered)
            /\ (c.pc = "checkAgain" /\ txns[k].exists) => d.pc = "replayRead"
            /\ c.pc = "replayRead" => Replayed(d)
            /\ (c.pc = "balanceRead" /\ ~covered) => d.result = Failure(MsgInsufficient)]_vars

\* a debit has failed with the retry error: its key has no record and the
\* account, from which another debit took a unit and to which a credit gave
\* one, covers it
ConflictOnlyUnexplainedWitness ==
  /\ \E c \in CallSet :
       /\ c.result = Failure(MsgConcurrent)
       /\ ~txns[c.input.idempotentKey].exists
       /\ users[c.input.userId].balance + RequestDelta(c.input) >= 0
  /\ \E e \in CallSet : Fresh(e) /\ e.input.type = "debit"
  /\ \E e \in CallSet : Fresh(e) /\ e.input.type = "credit"

\* C27: updatedAt monotonicity.  Every commit that changes the balance of an
\* account sets its updatedAt to a time that is not earlier than the
\* updatedAt it had (the claim asks for a strictly later one), whichever way
\* the calls interleave.
UpdatedAtMonotonic ==
  [][\A u \in UserIds :
       (users[u].exists /\ users'[u].balance # users[u].balance)
         => users'[u].updatedAt >= users[u].updatedAt]_vars

Includes(s, w) ==
  \E i \in 1..(Len(s) - Len(w) + 1) : SubSeq(s, i, i + Len(w) - 1) = w

\* the message of the error a failed call has thrown; the message of line 107
\* holds the userId
ErrorMessage(c) ==
  IF c.result.message = MsgNotFound
    THEN "User " \o c.input.userId \o " not found"
    ELSE c.result.message

\* transactHandler, catch block: the status code for an error message
ErrorStatusCode(message) ==
  IF \/ Includes(message, "Insufficient balance")
     \/ Includes(message, "concurrent")
     \/ Includes(message, "retry")
    THEN 409
  ELSE IF Includes(message, "not found") THEN 404
  ELSE IF Includes(message, "must be") \/ Includes(message, "required") THEN 400
  ELSE 500

\* transactHandler: the status code of the reply to the request of call c
TransactHandlerStatusCode(c) ==
  IF \/ c.input.idempotentKey = "" \/ c.input.userId = ""
     \/ c.input.amount = "" \/ c.input.type = ""
    THEN 400
  ELSE IF Succeeded(c) THEN 200
  ELSE ErrorStatusCode(ErrorMessage(c))

\* C29: status mapping of the transact handler.  The handler replies 200 to a
\* success (fresh or replay), 400 to an InvalidInput error, 404 to 'User not
\* found' and 409 to 'Insufficient balance' and to the retry error, whatever
\* the fields of the request are.
StatusMapping ==
  \A c \in CallSet :
    Done(c) =>
      TransactHandlerStatusCode(c) =
        IF Succeeded(c) THEN 200
        ELSE IF c.result.message \in InvalidInputMessages THEN 400
        ELSE IF c.result.message = MsgNotFound THEN 404
        ELSE IF c.result.message \in {MsgInsufficient, MsgConcurrent} THEN 409
        ELSE 500

\* C30: failures are not recorded.  A call that ends in an error changes no
\* table, and a record is in the ledger only for a key one of whose calls has
\* committed; so a key whose calls have all failed has no record, and a later
\* call with that key is not served a replay: it goes on to the account
\* lookup as a new request.
FailuresNotRecorded ==
  [][/\ \A d \in BagToSet(calls') :
          (FinishedNow(d) /\ Failed(d)) => (users' = users /\ txns' = txns)
     /\ \A k \in IdempotentKeys :
          txns'[k].exists =>
            \E c \in BagToSet(calls') :
              /\ c.input.idempotentKey = k
              /\ (c.pc = "reread" \/ Fresh(c))
     /\ \A d \in BagToSet(calls') :
          ( /\ CopiesIn(d, calls') > CopiesIn(d, calls)
            /\ BagCardinality(calls') > BagCardinality(calls)
            /\ Validate(d.input) = ""
            /\ \E c \in CallsWithKey(d.input.idempotentKey) : Failed(c)
            /\ \A c \in CallsWithKey(d.input.idempotentKey) : Failed(c) )
          => d.pc = "lookup"]_vars

\* a debit was refused for funds, a credit then raised the balance, and the
\* same debit, sent again under the same key, has committed
FailuresNotRecordedWitness ==
  \E c, d \in CallSet :
    /\ Failed(c) /\ c.result.message = MsgInsufficient
    /\ c.input.type = "debit"
    /\ Fresh(d) /\ d.input = c.input
    /\ initialBalance["u1"] = 0
    /\ txns[c.input.idempotentKey].transactionId = 2

\* C31: key reuse with different parameters.  A valid call that begins when
\* its key has a record ends at its probe: it returns success with the
\* recorded transactionId and the recorded newBalance and changes neither
\* table, whatever its userId, amount and type are, also when they differ
\* from the recorded ones and when its userId has no account.
KeyReuseReplays ==
  [][\A d \in BagToSet(calls') :
       LET item == txns[d.input.idempotentKey]
       IN ( /\ CopiesIn(d, calls') > CopiesIn(d, calls)
            /\ BagCardinality(calls') > BagCardinality(calls)
            /\ Validate(d.input) = ""
            /\ item.exists )
          => /\ d = Call("done", d.input, NoLocal,
                         Success(item.transactionId, item.newBalance, MsgIdempotent))
             /\ users' = users
             /\ txns' = txns]_vars

\* a credit to a userId without account was sent under the key of a record of
\* account u1 and was answered with that record
KeyReuseWitness ==
  \E c \in CallSet :
    LET item == txns[c.input.idempotentKey]
    IN /\ Done(c) /\ c.result.message = MsgIdempotent
       /\ c.input.userId = "u2"
       /\ ~users["u2"].exists
       /\ item.exists /\ item.userId = "u1"
       /\ c.result.transactionId = item.transactionId

InsufficientBalanceSound ==
  [][\A c \in CallSet : \A d \in BagToSet(calls') :
       (Stepped(c, d) /\ d.result = Failure(MsgInsufficient))
         => /\ c.input.type = "debit"
            /\ c.pc \in {"lookup", "balanceRead"}
            /\ users[c.input.userId].exists
            /\ users[c.input.userId].balance < ParseFloat(c.input.amount).value]_vars

\* C34: boundary of the debit guard.  When the calls run one at a time, a
\* debit with an unused key whose amount equals the balance of the account
\* passes the optimistic check with projection 0, its commit goes through,
\* leaves the balance at exactly 0 and records 0, and the call returns success
\* with newBalance 0.
DebitOfWholeBalance ==
  [][\A c \in CallSet : \A d \in BagToSet(calls') :
       LET u == c.input.userId
           k == c.input.idempotentKey
           whole == /\ c.input.type = "debit"
                    /\ users[u].exists
                    /\ ~txns[k].exists
                    /\ ParseFloat(c.input.amount).value = users[u].balance
       IN Stepped(c, d) =>
            /\ (c.pc = "lookup" /\ whole)
               => (d.pc = "commit" /\ d.local.calculatedNewBalance = 0)
            /\ (c.pc = "commit" /\ whole)
               => /\ d.pc = "reread"
                  /\ users'[u].balance = 0
                  /\ txns'[k].exists
                  /\ txns'[k].newBalance = 0
                  /\ txns'[k].transactionId = d.local.transactionId
            /\ ( /\ c.pc = "reread"
                 /\ c.input.type = "debit"
                 /\ c.local.calculatedNewBalance = 0 )
               => /\ d = Finished(c, Success(c.local.transactionId, 0, ""))
                  /\ users'[u].balance = 0]_vars

\* the only call made so far, a debit of the whole balance of 1, has committed
\* and returned 0
DebitOfWholeBalanceWitness ==
  /\ initialBalance["u1"] = 1
  /\ BagCardinality(calls) = 1
  /\ users["u1"].balance = 0
  /\ \E c \in CallSet :
       /\ Fresh(c)
       /\ c.input.type = "debit"
       /\ ParseFloat(c.input.amount).value = initialBalance["u1"]
       /\ c.result.newBalance = 0
       /\ txns[c.input.idempotentKey].newBalance = 0

\* C35: account isolation.  A step of a transact call for userId A changes
\* neither the balance nor the timestamps of any other account, and changes no
\* ledger record of a key other than its own; the record it inserts names A;
\* the step that starts a call changes neither table.  This holds under every
\* interleaving.
AccountIsolation ==
  [][/\ \A c \in CallSet : \A d \in BagToSet(calls') :
          Stepped(c, d) =>
            /\ \A v \in UserIds \ {c.input.userId} : users'[v] = users[v]
            /\ \A j \in IdempotentKeys \ {c.input.idempotentKey} : txns'[j] = txns[j]
            /\ txns' # txns => txns'[c.input.idempotentKey].userId = c.input.userId
     /\ BagCardinality(calls') > BagCardinality(calls)
          => (users' = users /\ txns' = txns)]_vars

\* after the clock moved on, a debit has changed balance and updatedAt of
\* account u1 while account u2 is as it was created, and a credit to u2 under
\* the key of a debit of u1 was answered with that debit's record
AccountIsolationWitness ==
  /\ users["u1"].balance = initialBalance["u1"] - 1
  /\ users["u1"].updatedAt > 0
  /\ users["u2"] = [exists |-> TRUE, balance |-> 0, createdAt |-> 0, updatedAt |-> 0]
  /\ txns["k1"].exists /\ txns["k1"].userId = "u1"
  /\ \E c \in CallSet :
       /\ Done(c) /\ c.input.userId = "u2"
       /\ c.result.transactionId = txns["k1"].transactionId

====
